---- MODULE Spec2Model ----
(***************************************************************************)
(* pydantic_xml/model.py: the declaration layer of the xml data binding.   *)
(*                                                                         *)
(* State: the metaclass flag, the table of declared model classes (their   *)
(* xml configuration, their __concrete__ attribute, their                  *)
(* __xml_serializer__ slot), pydantic's cache of generic specializations,  *)
(* the namespace registry and the REGISTER_NS_PREFIXES option.             *)
(* The last variables observe calls: `result` holds the outcome of the     *)
(* latest from_xml / from_xml_tree / to_xml_tree / to_xml call, `threads`  *)
(* the position of each thread inside __class_getitem__.                   *)
(***************************************************************************)
EXTENDS Integers, Sequences, FiniteSets, TLC

VARIABLES
    is_base_model_defined,  \* XmlModelMeta.__is_base_model_defined__
    classes,                \* the classes created by XmlModelMeta, in creation order
    generic_types_cache,    \* pydantic's cache: <<template, argument>> -> class
    registry,               \* the namespace registry: set of <<prefix, uri>>
    REGISTER_NS_PREFIXES,   \* config.REGISTER_NS_PREFIXES
    factory_calls,          \* number of ModelSerializerFactory.from_model calls so far
    result,                 \* outcome of the latest serialization call
    threads                 \* per thread: its position in __class_getitem__

vars == <<is_base_model_defined, classes, generic_types_cache, registry,
          REGISTER_NS_PREFIXES, factory_calls, result, threads>>

----------------------------------------------------------------------------
(* Bounds *)

\* classes created in the declaration specification (base classes included)
MaxClasses == 5
\* classes created in the serialization and the threaded specifications
MaxSchema == 4
\* from_model calls on one class (re-specialization compiles again)
MaxCompiles == 2

Threads == {"t1", "t2"}

----------------------------------------------------------------------------
(* Python values *)

\* Optional[str] with the value None
None == "None"

\* Optional[NsMap]: None, or a dict given as a set of <<prefix, uri>> items
NoMap == [none |-> TRUE, items |-> {}]
Dict(items) == [none |-> FALSE, items |-> items]

\* truth value of an Optional[NsMap]: None and {} are false
Truthy(nsmap) == ~nsmap.none /\ nsmap.items # {}

\* dict.get(key): the value under key, or None
Get(nsmap, key) ==
    IF \E it \in nsmap.items : it[1] = key
    THEN (CHOOSE it \in nsmap.items : it[1] = key)[2]
    ELSE None

\* truth value of an Optional[str]: None and '' are false
TruthyStr(s) == s # None /\ s # ""

----------------------------------------------------------------------------
(* Field declarations.  A field has a name, an entity (attribute or element,
   with an optional name/tag and namespace) and a declared type: a scalar
   kind, the type variable "T", or a model class (type = "model", of = id). *)

Field(name, entity, tag, ns, type, of, optional) ==
    [name |-> name, entity |-> entity, tag |-> tag, ns |-> ns, type |-> type,
     of |-> of, optional |-> optional]

\* { id: Attribute(name="id"), name: Element(tag="Name"), note: Optional element }
ScalarFields ==
    << Field("id", "attr", "id", None, "int", 0, FALSE),
       Field("name", "element", "Name", None, "str", 0, FALSE),
       Field("note", "element", None, None, "str", 0, TRUE) >>

\* a field whose type is the model class c
NestedFields(c) == << Field("inner", "element", None, None, "model", c, FALSE) >>

\* the field of a generic template: value: T
GenericFields == << Field("value", "element", None, None, "T", 0, FALSE) >>

TypeArgs == {"int", "str"}

----------------------------------------------------------------------------
(* Class keyword arguments of a class statement (tag, ns, nsmap, ns_attrs) *)

Kw(tag, ns, nsmap, ns_attrs) ==
    [tag |-> tag, ns |-> ns, nsmap |-> nsmap, ns_attrs |-> ns_attrs]

\* class X(Base): no keyword given, the defaults of __init_subclass__
NoKw == Kw(None, None, NoMap, FALSE)

Kwargs ==
    { NoKw,
      Kw("model", "urn:a", Dict({<<"", "urn:a">>}), TRUE),
      Kw("item", None, Dict({<<"p", "urn:b">>}), FALSE) }

\* the class keywords of the serialization specification: the default
\* namespace declared, declared as the empty uri, and not declared
SchemaKwargs ==
    { NoKw,
      Kw("model", "urn:a", Dict({<<"", "urn:a">>}), TRUE),
      Kw(None, None, Dict({<<"", "">>, <<"p", "urn:b">>}), FALSE) }

\* the namespace maps an entity declaration may carry
EntityNsMaps == { NoMap, Dict({}), Dict({<<"q", "urn:b">>}) }

----------------------------------------------------------------------------
(* Class objects *)

\* the __xml_serializer__ slot: attribute missing, None, or a RootSerializer
Unset == [slot |-> "unset", id |-> 0, plan |-> <<>>]
NoSerializer == [slot |-> "None", id |-> 0, plan |-> <<>>]

\* the xml configuration before __init_subclass__ has run (BaseXmlModel itself)
NoConf == [set |-> FALSE, tag |-> None, ns |-> None, nsmap |-> NoMap, ns_attrs |-> FALSE]

IsNone(s) == s.slot = "None"
IsCompiled(s) == s.slot = "set"

ClassIds == 1..Len(classes)

\* the world the class-level operations act on
World ==
    [flag |-> is_base_model_defined, classes |-> classes,
     cache |-> generic_types_cache, registry |-> registry, calls |-> factory_calls]

Commit(w) ==
    /\ is_base_model_defined' = w.flag
    /\ classes' = w.classes
    /\ generic_types_cache' = w.cache
    /\ registry' = w.registry
    /\ factory_calls' = w.calls

----------------------------------------------------------------------------
(* utils.register_nsmap: every <<prefix, uri>> item of the map goes into the
   registry; an item already there stays, and an older item with the same
   prefix or the same uri gives way to the new one. *)

register_nsmap(reg, nsmap) ==
    { old \in reg : \A it \in nsmap.items : old[1] # it[1] /\ old[2] # it[2] }
        \cup nsmap.items

----------------------------------------------------------------------------
(* serializers.ModelSerializerFactory.from_model: the compiled plan of a
   class.  One entry per field, in declaration order: the resolved entity
   (explicit tag, else the field's name; entity namespace, else the model's,
   which attributes take only under ns_attrs) and the codec: the scalar kind,
   or the compiled serializer of the nested model class. *)

ClassNames == << "BaseXmlModel", "BaseGenericXmlModel", "M3", "M4", "M5", "M6", "M7" >>

PlanEntry(cs, conf, f) ==
    [name   |-> f.name,
     entity |-> f.entity,
     tag    |-> IF f.tag # None THEN f.tag ELSE f.name,
     ns     |-> IF f.ns # None THEN f.ns
                ELSE IF f.entity = "attr" /\ ~conf.ns_attrs THEN None
                ELSE conf.ns,
     optional |-> f.optional,
     codec  |-> f.type,
     of     |-> f.of,
     nested |-> IF f.type = "model" THEN cs[f.of].serializer.plan ELSE <<>>]

CompilePlan(cs, c) ==
    [tag     |-> IF cs[c].conf.tag # None THEN cs[c].conf.tag ELSE ClassNames[c],
     ns      |-> cs[c].conf.ns,
     entries |-> [i \in 1..Len(cs[c].fields) |-> PlanEntry(cs, cs[c].conf, cs[c].fields[i])]]

\* a new RootSerializer object (a fresh identity) holding the plan
from_model(w, c) ==
    [slot |-> "set", id |-> w.calls + 1, plan |-> <<CompilePlan(w.classes, c)>>]

----------------------------------------------------------------------------
(* BaseXmlModel.__init_subclass__, lines 178-201 *)

init_subclass(kw) ==
    [set |-> TRUE, tag |-> kw.tag, ns |-> kw.ns, nsmap |-> kw.nsmap, ns_attrs |-> kw.ns_attrs]

\* __init_serializer__ with the REGISTER_NS_PREFIXES test left out
init_serializer_ungated(w, c) ==
    LET reg == IF Truthy(w.classes[c].conf.nsmap)
               THEN register_nsmap(w.registry, w.classes[c].conf.nsmap)
               ELSE w.registry
    IN [w EXCEPT !.registry = reg,
                 !.classes[c].serializer = from_model(w, c),
                 !.classes[c].compiles = @ + 1,
                 !.calls = @ + 1]

(* BaseXmlModel.__init_serializer__, lines 203-208 *)
BaseXmlModel_init_serializer(w, c) ==
    LET reg == IF REGISTER_NS_PREFIXES /\ Truthy(w.classes[c].conf.nsmap)
               THEN register_nsmap(w.registry, w.classes[c].conf.nsmap)
               ELSE w.registry
    IN [w EXCEPT !.registry = reg,
                 !.classes[c].serializer = from_model(w, c),
                 !.classes[c].compiles = @ + 1,
                 !.calls = @ + 1]

\* the generic __init_serializer__ with the __concrete__ test left out
init_serializer_unchecked(w, c) == BaseXmlModel_init_serializer(w, c)

(* BaseGenericXmlModel.__init_serializer__, lines 294-300 *)
BaseGenericXmlModel_init_serializer(w, c) ==
    IF ~w.classes[c].concrete
    THEN [w EXCEPT !.classes[c].serializer = NoSerializer]
    ELSE BaseXmlModel_init_serializer(w, c)

\* cls.__init_serializer__(): the method the class inherits
init_serializer(w, c) ==
    IF w.classes[c].generic
    THEN BaseGenericXmlModel_init_serializer(w, c)
    ELSE BaseXmlModel_init_serializer(w, c)

----------------------------------------------------------------------------
(* The class object type.__new__ builds: the bases' fields, then the class's
   own; the attributes a class inherits (__concrete__, which only classes
   under GenericModel have; __xml_serializer__) are copied from the base;
   __init_subclass__ runs for every class below BaseXmlModel.
   kw (the class keywords as written), compiles (the from_model calls made
   for the class), template and arg (what a specialization was made from)
   record the class's history. *)

MergeFields(inherited, own) ==
    LET names == { own[i].name : i \in 1..Len(own) }
    IN SelectSeq(inherited, LAMBDA f : f.name \notin names) \o own

NewClass(cs, base, isGenericBase, kw, own) ==
    [base       |-> base,
     generic    |-> isGenericBase \/ (base # 0 /\ cs[base].generic),
     concrete   |-> IF isGenericBase THEN FALSE
                    ELSE IF base # 0 /\ cs[base].generic THEN cs[base].concrete
                    ELSE TRUE,
     conf       |-> IF base = 0 THEN NoConf ELSE init_subclass(kw),
     fields     |-> IF base = 0 THEN own ELSE MergeFields(cs[base].fields, own),
     serializer |-> IF base = 0 THEN Unset ELSE cs[base].serializer,
     kw         |-> kw,
     compiles   |-> 0,
     template   |-> 0,
     arg        |-> None]

(* XmlModelMeta.__new__, lines 157-164 *)
XmlModelMeta_new(w, base, isGenericBase, kw, own) ==
    LET c == Len(w.classes) + 1
        created == [w EXCEPT !.classes = Append(@, NewClass(w.classes, base, isGenericBase, kw, own))]
    IN IF w.flag
       THEN init_serializer(created, c)
       ELSE [created EXCEPT !.flag = TRUE]

----------------------------------------------------------------------------
(* pydantic.generics.GenericModel.__class_getitem__ (line 285): the cached
   class for <<template, argument>>, or a new class created through the
   metaclass with no class keyword, whose T fields take the argument and whose
   __concrete__ is then set. *)

CacheKey(t, arg) == <<t, arg>>

Cached(w, t, arg) == CacheKey(t, arg) \in DOMAIN w.cache

Substitute(fields, arg) ==
    [i \in 1..Len(fields) |->
        IF fields[i].type = "T" THEN [fields[i] EXCEPT !.type = arg] ELSE fields[i]]

GenericModel_class_getitem(w, t, arg) ==
    IF Cached(w, t, arg)
    THEN w
    ELSE LET c == Len(w.classes) + 1
             made == XmlModelMeta_new(w, t, FALSE, NoKw, <<>>)
         IN [made EXCEPT !.classes[c].fields = Substitute(@, arg),
                         !.classes[c].concrete = TRUE,
                         !.classes[c].template = t,
                         !.classes[c].arg = arg,
                         !.cache = (CacheKey(t, arg) :> c) @@ @]

\* the class super().__class_getitem__(params) returns in world w
Specialization(w, t, arg) == w.cache[CacheKey(t, arg)]

(* BaseGenericXmlModel.__class_getitem__, lines 286-289 *)
copy_configuration(w, t, model) ==
    [w EXCEPT !.classes[model].conf =
        [@ EXCEPT !.tag = w.classes[t].conf.tag,
                  !.ns = w.classes[t].conf.ns,
                  !.nsmap = w.classes[t].conf.nsmap,
                  !.ns_attrs = w.classes[t].conf.ns_attrs]]

\* __class_getitem__ handing the new class the serializer an earlier
\* specialization of the template already has, instead of compiling
class_getitem_shared(w, t, arg) ==
    LET w1 == GenericModel_class_getitem(w, t, arg)
        model == Specialization(w1, t, arg)
        w2 == copy_configuration(w1, t, model)
        others == { c \in 1..Len(w2.classes) :
                      /\ c # model
                      /\ w2.classes[c].template = t
                      /\ w2.classes[c].serializer.slot = "set" }
    IN IF others = {}
       THEN init_serializer(w2, model)
       ELSE [w2 EXCEPT !.classes[model].serializer =
                          w2.classes[CHOOSE c \in others : TRUE].serializer]

(* BaseGenericXmlModel.__class_getitem__, lines 284-292 *)
class_getitem(w, t, arg) ==
    LET w1 == GenericModel_class_getitem(w, t, arg)
        model == Specialization(w1, t, arg)
        w2 == copy_configuration(w1, t, model)
    IN init_serializer(w2, model)

\* a class that can be parameterized: a template with a T field
IsTemplate(cs, c) ==
    /\ cs[c].generic
    /\ ~cs[c].concrete
    /\ \E i \in 1..Len(cs[c].fields) : cs[c].fields[i].type = "T"

----------------------------------------------------------------------------
(* Initial state: the module body is about to run (line 155). *)

NoResult == [op |-> "none"]
Idle == [pc |-> "idle", template |-> 0, arg |-> None, model |-> 0,
         built |-> NoSerializer, returned |-> NoSerializer]

Init ==
    /\ is_base_model_defined = FALSE
    /\ classes = <<>>
    /\ generic_types_cache = <<>>
    /\ registry = {}
    /\ REGISTER_NS_PREFIXES \in BOOLEAN
    /\ factory_calls = 0
    /\ result = NoResult
    /\ threads = [t \in Threads |-> Idle]

----------------------------------------------------------------------------
(* Declarations *)

\* class BaseXmlModel(pd.BaseModel, metaclass=XmlModelMeta), line 167
DefineBaseXmlModel ==
    /\ Len(classes) = 0
    /\ Commit(XmlModelMeta_new(World, 0, FALSE, NoKw, <<>>))
    /\ UNCHANGED <<REGISTER_NS_PREFIXES, result, threads>>

\* class BaseGenericXmlModel(BaseXmlModel, pd.generics.GenericModel), line 279
DefineBaseGenericXmlModel ==
    /\ Len(classes) = 1
    /\ Commit(XmlModelMeta_new(World, 1, TRUE, NoKw, <<>>))
    /\ UNCHANGED <<REGISTER_NS_PREFIXES, result, threads>>

\* the field lists a class statement under base adds: a template declares a
\* T field, a class below BaseXmlModel the scalar fields
OwnFields(base) ==
    IF base = 2 THEN { GenericFields }
    ELSE IF base = 1 THEN { ScalarFields }
    ELSE { <<>> }

\* the same, and below BaseXmlModel a field whose type is an already compiled
\* model class
SchemaFields(base) ==
    OwnFields(base) \cup
        IF base # 1 THEN {}
        ELSE { NestedFields(c) : c \in { d \in ClassIds : IsCompiled(classes[d].serializer) } }

\* class M(Base, tag=..., ns=..., nsmap=..., ns_attrs=...): own fields
DeclareModel(limit, base, kw, own) ==
    /\ Len(classes) >= 2
    /\ Len(classes) < limit
    /\ base \in ClassIds
    /\ Commit(XmlModelMeta_new(World, base, FALSE, kw, own))
    /\ UNCHANGED <<REGISTER_NS_PREFIXES, result, threads>>

\* Template[arg]; writing it again compiles again, up to cap times
Specialize(limit, cap, t, arg) ==
    /\ t \in ClassIds
    /\ IsTemplate(classes, t)
    /\ IF Cached(World, t, arg)
       THEN classes[Specialization(World, t, arg)].compiles < cap
       ELSE Len(classes) < limit
    /\ Commit(class_getitem(World, t, arg))
    /\ UNCHANGED <<REGISTER_NS_PREFIXES, result, threads>>

(* XmlElementInfo.__init__, lines 56-69 *)
XmlElementInfo_init(nsmap) ==
    /\ registry' = IF REGISTER_NS_PREFIXES /\ Truthy(nsmap)
                   THEN register_nsmap(registry, nsmap)
                   ELSE registry
    /\ UNCHANGED <<is_base_model_defined, classes, generic_types_cache,
                   REGISTER_NS_PREFIXES, factory_calls, result, threads>>

(* XmlWrapperInfo.__init__, lines 95-110 *)
XmlWrapperInfo_init(nsmap) ==
    /\ registry' = IF REGISTER_NS_PREFIXES /\ Truthy(nsmap)
                   THEN register_nsmap(registry, nsmap)
                   ELSE registry
    /\ UNCHANGED <<is_base_model_defined, classes, generic_types_cache,
                   REGISTER_NS_PREFIXES, factory_calls, result, threads>>

\* config.REGISTER_NS_PREFIXES = b
SetOption(b) ==
    /\ REGISTER_NS_PREFIXES' = b
    /\ UNCHANGED <<is_base_model_defined, classes, generic_types_cache, registry,
                   factory_calls, result, threads>>

Next ==
    \/ DefineBaseXmlModel
    \/ DefineBaseGenericXmlModel
    \/ \E base \in ClassIds, kw \in Kwargs : \E own \in OwnFields(base) :
          DeclareModel(MaxClasses, base, kw, own)
    \/ \E t \in ClassIds, arg \in TypeArgs : Specialize(MaxClasses, MaxCompiles, t, arg)
    \/ \E nsmap \in EntityNsMaps : XmlElementInfo_init(nsmap)
    \/ \E nsmap \in EntityNsMaps : XmlWrapperInfo_init(nsmap)
    \/ \E b \in BOOLEAN : SetOption(b)

Spec == Init /\ [][Next]_vars

----------------------------------------------------------------------------
(* Values.  A scalar, None, or a model instance; an instance holds its class
   and the value of every field. *)

IntV(n) == [k |-> "int", n |-> n]
StrV(s) == [k |-> "str", s |-> s]
NoneV == [k |-> "none"]
ModelV(inst) == [k |-> "model", inst |-> inst]

Ints == {7, 12}
Texts == {"Ada", "7"}

RECURSIVE InstancesOf(_, _)

\* the values a field of a valid instance may hold; a T field holds anything
ValuesOf(cs, f) ==
    (IF f.optional THEN {NoneV} ELSE {}) \cup
    CASE f.type = "int" -> { IntV(n) : n \in Ints }
      [] f.type = "str" -> { StrV(s) : s \in IF f.optional THEN {"7"} ELSE Texts }
      [] f.type = "T" -> { IntV(7), StrV("Ada") }
      [] f.type = "model" -> { ModelV(x) : x \in InstancesOf(cs, f.of) }

FieldNames(fields) == { fields[i].name : i \in 1..Len(fields) }
FieldNamed(fields, name) == fields[CHOOSE i \in 1..Len(fields) : fields[i].name = name]

\* the valid assignments of values to the first n fields
RECURSIVE Assignments(_, _, _)
Assignments(cs, fields, n) ==
    IF n = 0 THEN { <<>> }
    ELSE { (fields[n].name :> v) @@ g :
              v \in ValuesOf(cs, fields[n]), g \in Assignments(cs, fields, n - 1) }

\* the valid instances of class c
InstancesOf(cs, c) ==
    { [cls |-> c, values |-> v] : v \in Assignments(cs, cs[c].fields, Len(cs[c].fields)) }

----------------------------------------------------------------------------
(* The scalar codec (serializers.DEFAULT_ENCODER and its inverse): the
   canonical text of a value, and the value of a text under a declared type. *)

IntText == (7 :> "7") @@ (12 :> "12")

Encode(v) == IF v.k = "int" THEN IntText[v.n] ELSE v.s

Decode(text, type) ==
    IF type = "int" /\ \E n \in DOMAIN IntText : IntText[n] = text
    THEN IntV(CHOOSE n \in DOMAIN IntText : IntText[n] = text)
    ELSE StrV(text)

----------------------------------------------------------------------------
(* Trees (backend.etree): an element has a tag, a namespace, attributes keyed
   by <<namespace, name>>, a text and children. *)

Element(tag, ns, attrib, text, children) ==
    [tag |-> tag, ns |-> ns, attrib |-> attrib, text |-> text, children |-> children]

\* Element.set(name, value)
SetAttr(node, name, value) ==
    [node EXCEPT !.attrib = (<<None, name>> :> value) @@ @]

HasAttr(node, name) == <<None, name>> \in DOMAIN node.attrib

RECURSIVE Concat(_)
Concat(seqs) == IF seqs = <<>> THEN <<>> ELSE Head(seqs) \o Concat(Tail(seqs))

(* RootSerializer.serialize (the Runtime Emitter): attributes for the
   attribute entries, one child per element entry in declaration order; an
   absent value sets no attribute and emits an empty child, or no child under
   skip_empty; a nested model is emitted by its own serializer under the
   field's tag. *)
RECURSIVE serialize(_, _, _, _, _)
serialize(plan, tag, ns, inst, skip_empty) ==
    LET es == plan.entries
        val(i) == inst.values[es[i].name]
        attrs == { i \in 1..Len(es) : es[i].entity = "attr" /\ val(i).k # "none" }
        keys == { <<es[i].ns, es[i].tag>> : i \in attrs }
        child(i) ==
            IF es[i].entity # "element" THEN <<>>
            ELSE IF val(i).k = "none"
                 THEN IF skip_empty THEN <<>>
                      ELSE << Element(es[i].tag, es[i].ns, <<>>, None, <<>>) >>
            ELSE IF val(i).k = "model"
                 THEN << serialize(es[i].nested[1], es[i].tag, es[i].ns,
                                   val(i).inst, skip_empty) >>
            ELSE << Element(es[i].tag, es[i].ns, <<>>, Encode(val(i)), <<>>) >>
    IN Element(tag, ns,
               [key \in keys |->
                   Encode(val(CHOOSE i \in attrs : <<es[i].ns, es[i].tag>> = key))],
               None,
               Concat([i \in 1..Len(es) |-> child(i)]))

(* RootSerializer.deserialize (the Runtime Extractor): per entry the attribute
   or the first child with the resolved tag and namespace, decoded by the
   entry's codec; what is missing or empty is absent; a nested model is
   extracted by its own serializer.  The result is a plain mapping. *)
RECURSIVE deserialize(_, _)
deserialize(plan, node) ==
    LET es == plan.entries
        found(i) == { j \in 1..Len(node.children) :
                        /\ node.children[j].tag = es[i].tag
                        /\ node.children[j].ns = es[i].ns }
        first(i) == node.children[CHOOSE j \in found(i) : \A l \in found(i) : j <= l]
        value(i) ==
            IF es[i].entity = "attr"
            THEN IF <<es[i].ns, es[i].tag>> \in DOMAIN node.attrib
                 THEN Decode(node.attrib[<<es[i].ns, es[i].tag>>], es[i].codec)
                 ELSE NoneV
            ELSE IF found(i) = {} THEN NoneV
            ELSE IF es[i].codec = "model"
                 THEN [k |-> "map", v |-> deserialize(es[i].nested[1], first(i))]
            ELSE IF first(i).text = None THEN NoneV
            ELSE Decode(first(i).text, es[i].codec)
    IN [n \in { es[i].name : i \in 1..Len(es) } |->
           value(CHOOSE i \in 1..Len(es) : es[i].name = n)]

(* pydantic's BaseModel.parse_obj (the Validation Bridge): an instance of the
   class from a plain mapping, or a validation error when a required field is
   absent or a value is not of the declared type. *)
RECURSIVE Valid(_, _, _)
Valid(cs, c, obj) ==
    \A i \in 1..Len(cs[c].fields) :
        LET f == cs[c].fields[i]
            v == obj[f.name]
        IN CASE v.k = "none" -> f.optional
             [] v.k = "map" -> f.type = "model" /\ Valid(cs, f.of, v.v)
             [] OTHER -> f.type \in {v.k, "T"}

RECURSIVE Build(_, _, _)
Build(cs, c, obj) ==
    [cls |-> c,
     values |-> [n \in DOMAIN obj |->
                    IF obj[n].k = "map"
                    THEN ModelV(Build(cs, FieldNamed(cs[c].fields, n).of, obj[n].v))
                    ELSE obj[n]]]

----------------------------------------------------------------------------
(* Bytes (etree.tostring / etree.fromstring): a document is the sequence of
   its open, text and close tokens; parsing fails on a sequence that is not
   one complete element. *)

OpenTok(node) == [t |-> "open", tag |-> node.tag, ns |-> node.ns, attrib |-> node.attrib]
TextTok(text) == [t |-> "text", text |-> text]
CloseTok == [t |-> "close"]

RECURSIVE tostring(_)
tostring(node) ==
    <<OpenTok(node)>>
        \o (IF node.text = None THEN <<>> ELSE <<TextTok(node.text)>>)
        \o Concat([i \in 1..Len(node.children) |-> tostring(node.children[i])])
        \o <<CloseTok>>

\* the element that starts at token i: [ok, node, next]
RECURSIVE ParseElement(_, _)
RECURSIVE ParseChildren(_, _, _)
ParseFail == [ok |-> FALSE, node |-> <<>>, next |-> 0]

ParseElement(toks, i) ==
    IF i > Len(toks) \/ toks[i].t # "open" THEN ParseFail
    ELSE LET hasText == i + 1 <= Len(toks) /\ toks[i + 1].t = "text"
             text == IF hasText THEN toks[i + 1].text ELSE None
             rest == ParseChildren(toks, IF hasText THEN i + 2 ELSE i + 1, <<>>)
         IN IF ~rest.ok THEN ParseFail
            ELSE [ok |-> TRUE,
                  node |-> Element(toks[i].tag, toks[i].ns, toks[i].attrib, text, rest.node),
                  next |-> rest.next]

\* the children up to the close token of their parent: [ok, node (the list), next]
ParseChildren(toks, i, acc) ==
    IF i > Len(toks) THEN ParseFail
    ELSE IF toks[i].t = "close" THEN [ok |-> TRUE, node |-> acc, next |-> i + 1]
    ELSE LET one == ParseElement(toks, i)
         IN IF ~one.ok THEN ParseFail
            ELSE ParseChildren(toks, one.next, Append(acc, one.node))

\* etree.fromstring: [ok, node]
fromstring(source) ==
    LET doc == ParseElement(source, 1)
    IN IF doc.ok /\ doc.next = Len(source) + 1
       THEN [ok |-> TRUE, node |-> doc.node]
       ELSE [ok |-> FALSE, node |-> <<>>]

----------------------------------------------------------------------------
(* The four public operations.  Each yields an outcome: "ok" with the value
   returned, or the exception raised; events lists the calls made on the way
   (etree.fromstring, deserialize, parse_obj, serialize, etree.tostring).
   O says whether the interpreter runs with assertions stripped (python -O). *)

Outcome(kind, value, events) == [outcome |-> kind, value |-> value, events |-> events]

\* None.deserialize / None.serialize: the assert in front fails, or, with
\* assertions stripped, the attribute lookup on None does
OnNone(O, events) ==
    Outcome(IF O THEN "AttributeError" ELSE "AssertionError", <<>>, events)

\* from_xml_tree returning the extracted mapping without parse_obj
from_xml_tree_unvalidated(c, root, O) ==
    LET s == classes[c].serializer
    IN IF s = Unset THEN Outcome("AttributeError", <<>>, <<>>)
       ELSE IF IsNone(s) THEN OnNone(O, <<>>)
       ELSE Outcome("ok", deserialize(s.plan[1], root), <<"deserialize">>)

(* BaseXmlModel.from_xml_tree, lines 210-222 *)
BaseXmlModel_from_xml_tree(c, root, O) ==
    LET s == classes[c].serializer
        obj == deserialize(s.plan[1], root)
    IN IF s = Unset THEN Outcome("AttributeError", <<>>, <<>>)
       ELSE IF IsNone(s) THEN OnNone(O, <<>>)
       ELSE IF Valid(classes, c, obj)
            THEN Outcome("ok", Build(classes, c, obj), <<"deserialize", "parse_obj">>)
            ELSE Outcome("ValidationError", <<>>, <<"deserialize", "parse_obj">>)

(* BaseGenericXmlModel.from_xml_tree, lines 302-314 *)
BaseGenericXmlModel_from_xml_tree(c, root, O) ==
    IF IsNone(classes[c].serializer)
    THEN Outcome("ModelError", <<>>, <<>>)
    ELSE BaseXmlModel_from_xml_tree(c, root, O)

\* cls.from_xml_tree(root): the method the class inherits
from_xml_tree(c, root, O) ==
    IF classes[c].generic
    THEN BaseGenericXmlModel_from_xml_tree(c, root, O)
    ELSE BaseXmlModel_from_xml_tree(c, root, O)

(* BaseXmlModel.from_xml, lines 224-233 *)
from_xml(c, source, O) ==
    LET parsed == fromstring(source)
        inner == from_xml_tree(c, parsed.node, O)
    IN IF ~parsed.ok
       THEN Outcome("ParseError", <<>>, <<"fromstring">>)
       ELSE [inner EXCEPT !.events = <<"fromstring">> \o @]

\* to_xml_tree testing the default namespace against None, not for truth
to_xml_tree_not_none(self, skip_empty, O) ==
    LET c == self.cls
        s == classes[c].serializer
        nsmap == classes[c].conf.nsmap
        root == serialize(s.plan[1], s.plan[1].tag, s.plan[1].ns, self, skip_empty)
        default_ns == Get(nsmap, "")
    IN IF s = Unset THEN Outcome("AttributeError", <<>>, <<>>)
       ELSE IF IsNone(s) THEN OnNone(O, <<>>)
       ELSE IF Truthy(nsmap) /\ default_ns # None
            THEN Outcome("ok", SetAttr(root, "xmlns", default_ns), <<"serialize">>)
            ELSE Outcome("ok", root, <<"serialize">>)

(* BaseXmlModel.to_xml_tree, lines 235-258 *)
to_xml_tree(self, skip_empty, O) ==
    LET c == self.cls
        s == classes[c].serializer
        nsmap == classes[c].conf.nsmap
        root == serialize(s.plan[1], s.plan[1].tag, s.plan[1].ns, self, skip_empty)
        default_ns == Get(nsmap, "")
    IN IF s = Unset THEN Outcome("AttributeError", <<>>, <<>>)
       ELSE IF IsNone(s) THEN OnNone(O, <<>>)
       ELSE IF Truthy(nsmap) /\ TruthyStr(default_ns)
            THEN Outcome("ok", SetAttr(root, "xmlns", default_ns), <<"serialize">>)
            ELSE Outcome("ok", root, <<"serialize">>)

(* BaseXmlModel.to_xml, lines 260-276 *)
to_xml(self, skip_empty, O) ==
    LET tree == to_xml_tree(self, skip_empty, O)
    IN IF tree.outcome # "ok" THEN tree
       ELSE Outcome("ok", tostring(tree.value), tree.events \o <<"tostring">>)

----------------------------------------------------------------------------
(* Calls of the operations.  result observes one chain of calls: a call made
   on a sample input or an instance, and then the deserializing call made, on
   the class of that instance, on what the serializing call returned; origin
   names the instance that tree or document was made from. *)

SampleTrees ==
    { Element("Root", None, (<<None, "id">> :> "7"), None,
              << Element("Name", None, <<>>, "Ada", <<>>) >>),
      Element("Root", None, <<>>, None, << Element("value", None, <<>>, "7", <<>>) >>) }

\* a document cut off before its end
Malformed == << OpenTok(Element("Root", None, <<>>, None, <<>>)), TextTok("Ada") >>

SampleSources == { tostring(t) : t \in SampleTrees } \cup { Malformed }

\* what the latest call returned, if it was op and returned
Returned(op) ==
    IF result.op = op /\ result.outcome = "ok" THEN { result.value } ELSE {}

\* the inputs of a deserializing call
Inputs(samples, op) == IF result = NoResult THEN samples ELSE Returned(op)

Call(op, c, out, self, origin, skip_empty) ==
    [op |-> op, cls |-> c, outcome |-> out.outcome, value |-> out.value,
     events |-> out.events, self |-> self, origin |-> origin, skip_empty |-> skip_empty]

Unobserved ==
    UNCHANGED <<is_base_model_defined, classes, generic_types_cache, registry,
                REGISTER_NS_PREFIXES, factory_calls, threads>>

FromXmlTree(c, root, O) ==
    /\ c \in ClassIds
    /\ result # NoResult => c = result.cls
    /\ root \in Inputs(SampleTrees, "to_xml_tree")
    /\ result' = Call("from_xml_tree", c, from_xml_tree(c, root, O), <<>>,
                      IF result = NoResult THEN <<>> ELSE result.self,
                      result # NoResult /\ result.skip_empty)
    /\ Unobserved

FromXml(c, source, O) ==
    /\ c \in ClassIds
    /\ result # NoResult => c = result.cls
    /\ source \in Inputs(SampleSources, "to_xml")
    /\ result' = Call("from_xml", c, from_xml(c, source, O), <<>>,
                      IF result = NoResult THEN <<>> ELSE result.self,
                      result # NoResult /\ result.skip_empty)
    /\ Unobserved

ToXmlTree(self, skip_empty, O) ==
    /\ result = NoResult
    /\ self \in InstancesOf(classes, self.cls)
    /\ result' = Call("to_xml_tree", self.cls, to_xml_tree(self, skip_empty, O),
                      <<self>>, <<>>, skip_empty)
    /\ Unobserved

ToXml(self, skip_empty, O) ==
    /\ result = NoResult
    /\ self \in InstancesOf(classes, self.cls)
    /\ result' = Call("to_xml", self.cls, to_xml(self, skip_empty, O),
                      <<self>>, <<>>, skip_empty)
    /\ Unobserved

Instances == UNION { InstancesOf(classes, c) : c \in ClassIds }

SerializationNext ==
    \/ result = NoResult /\ DefineBaseXmlModel
    \/ result = NoResult /\ DefineBaseGenericXmlModel
    \/ /\ result = NoResult
       /\ \E base \in ClassIds, kw \in SchemaKwargs : \E own \in SchemaFields(base) :
             DeclareModel(MaxSchema, base, kw, own)
    \/ /\ result = NoResult
       /\ \E t \in ClassIds, arg \in TypeArgs : Specialize(MaxSchema, 1, t, arg)
    \/ \E c \in ClassIds, O \in BOOLEAN :
          \E root \in Inputs(SampleTrees, "to_xml_tree") : FromXmlTree(c, root, O)
    \/ \E c \in ClassIds, O \in BOOLEAN :
          \E source \in Inputs(SampleSources, "to_xml") : FromXml(c, source, O)
    \/ /\ result = NoResult
       /\ \E self \in Instances, skip_empty \in BOOLEAN, O \in BOOLEAN :
             ToXmlTree(self, skip_empty, O)
    \/ /\ result = NoResult
       /\ \E self \in Instances, skip_empty \in BOOLEAN, O \in BOOLEAN :
             ToXml(self, skip_empty, O)

SerializationSpec == Init /\ [][SerializationNext]_vars

----------------------------------------------------------------------------
(* Threads.  Each thread evaluates Template[arg] once, line by line:
   super().__class_getitem__ (285), the four assignments (286-289),
   __init_serializer__ (290: the registration and the from_model call of lines
   205-208, then the store into the class attribute of line 208) and the
   return (292), after which the thread reads the serializer of the class it
   was given. *)

At(th, pc) == threads[th].pc = pc

Goto(th, pc) == threads' = [threads EXCEPT ![th].pc = pc]

NoCall == UNCHANGED <<REGISTER_NS_PREFIXES, result>>

\* Template[arg] is called
Enter(th, t, arg) ==
    /\ At(th, "idle")
    /\ t \in ClassIds
    /\ IsTemplate(classes, t)
    /\ threads' = [threads EXCEPT ![th] = [@ EXCEPT !.pc = "285", !.template = t, !.arg = arg]]
    /\ UNCHANGED <<is_base_model_defined, classes, generic_types_cache, registry,
                   factory_calls>>
    /\ NoCall

\* line 285: model = super().__class_getitem__(params)
Line285(th) ==
    LET t == threads[th].template
        arg == threads[th].arg
        w == GenericModel_class_getitem(World, t, arg)
    IN /\ At(th, "285")
       /\ Cached(World, t, arg) \/ Len(classes) < MaxSchema
       /\ Commit(w)
       /\ threads' = [threads EXCEPT ![th] =
                         [@ EXCEPT !.pc = "286", !.model = Specialization(w, t, arg)]]
       /\ NoCall

\* lines 286-289
Line286(th) ==
    /\ At(th, "286")
    /\ Commit(copy_configuration(World, threads[th].template, threads[th].model))
    /\ Goto(th, "290")
    /\ NoCall

\* line 290, into lines 297-300 and 205-208: the right-hand side of line 208
Line290(th) ==
    LET c == threads[th].model
        w == init_serializer(World, c)
    IN /\ At(th, "290")
       /\ Commit([w EXCEPT !.classes[c].serializer = classes[c].serializer])
       /\ threads' = [threads EXCEPT ![th] =
                         [@ EXCEPT !.pc = "208", !.built = w.classes[c].serializer]]
       /\ NoCall

\* line 208 (or 298): the store into cls.__xml_serializer__
Line208(th) ==
    /\ At(th, "208")
    /\ classes' = [classes EXCEPT ![threads[th].model].serializer = threads[th].built]
    /\ Goto(th, "292")
    /\ UNCHANGED <<is_base_model_defined, generic_types_cache, registry, factory_calls>>
    /\ NoCall

\* line 292: return model; the caller reads model.__xml_serializer__
Line292(th) ==
    /\ At(th, "292")
    /\ threads' = [threads EXCEPT ![th] =
                      [@ EXCEPT !.pc = "done",
                                !.returned = classes[threads[th].model].serializer]]
    /\ UNCHANGED <<is_base_model_defined, classes, generic_types_cache, registry,
                   factory_calls>>
    /\ NoCall

ThreadedNext ==
    \/ DefineBaseXmlModel
    \/ DefineBaseGenericXmlModel
    \/ \E base \in ClassIds, kw \in Kwargs : \E own \in OwnFields(base) :
          DeclareModel(MaxSchema, base, kw, own)
    \/ \E th \in Threads, t \in ClassIds, arg \in TypeArgs : Enter(th, t, arg)
    \/ \E th \in Threads : Line285(th)
    \/ \E th \in Threads : Line286(th)
    \/ \E th \in Threads : Line290(th)
    \/ \E th \in Threads : Line208(th)
    \/ \E th \in Threads : Line292(th)

ThreadedSpec == Init /\ [][ThreadedNext]_vars

----------------------------------------------------------------------------
(* Types *)

\* a type with unbound type parameters: BaseGenericXmlModel, and every class
\* that still has a T field
IsGenericTemplate(c) ==
    c = 2 \/ \E i \in 1..Len(classes[c].fields) : classes[c].fields[i].type = "T"

IsConcreteType(c) == ~IsGenericTemplate(c)

HasNsMap(c) == Truthy(classes[c].conf.nsmap)

\* the class a step has just created, if it created one
Created == Len(classes') = Len(classes) + 1
NewId == Len(classes) + 1

----------------------------------------------------------------------------
(* C3 *)

\* C3 (as claimed): a subclass declared without a value for a setting has its
\* parent's value of that setting.
C3_ConfigurationInherited ==
    \A s \in ClassIds :
        LET p == classes[s].base
        IN (p # 0 /\ classes[p].conf.set) =>
            /\ (classes[s].kw.tag = None => classes[s].conf.tag = classes[p].conf.tag)
            /\ (classes[s].kw.ns = None => classes[s].conf.ns = classes[p].conf.ns)
            /\ (classes[s].kw.nsmap.none => classes[s].conf.nsmap = classes[p].conf.nsmap)
            /\ (~classes[s].kw.ns_attrs => classes[s].conf.ns_attrs = classes[p].conf.ns_attrs)

----------------------------------------------------------------------------
(* C5 *)

\* C5 (as claimed): with the option enabled, every newly declared class that
\* carries a non-empty namespace map, a generic template included, has every
\* item of the map in the registry; with the option disabled no step changes
\* the registry.
C5_EveryModelRegisters ==
    [][ /\ (REGISTER_NS_PREFIXES /\ Created /\ Truthy(classes'[NewId].conf.nsmap))
            => classes'[NewId].conf.nsmap.items \subseteq registry'
        /\ ~REGISTER_NS_PREFIXES => registry' = registry ]_vars

\* C5 (amended): with the option enabled, a newly declared class with a
\* compiled serializer (a concrete model, a specialization) that carries a
\* non-empty namespace map has every item of the map in the registry, and so
\* has every Element/Wrapper entity declared with a non-empty map; declaring a
\* generic template leaves the registry as it is; with the option disabled no
\* step changes the registry.
C5_Registration ==
    [][ /\ (REGISTER_NS_PREFIXES /\ Created /\ Truthy(classes'[NewId].conf.nsmap))
            => IF IsCompiled(classes'[NewId].serializer)
               THEN classes'[NewId].conf.nsmap.items \subseteq registry'
               ELSE registry' = registry
        /\ \A nsmap \in EntityNsMaps :
              (REGISTER_NS_PREFIXES /\ Truthy(nsmap)
                 /\ (XmlElementInfo_init(nsmap) \/ XmlWrapperInfo_init(nsmap)))
              => nsmap.items \subseteq registry'
        /\ ~REGISTER_NS_PREFIXES => registry' = registry ]_vars

\* C5 witness: the option is on, a template declared with a namespace map has
\* left it unregistered, a compiled class's map and an entity's map are
\* registered.
C5_Witness ==
    /\ REGISTER_NS_PREFIXES
    /\ \E t \in ClassIds :
          /\ IsGenericTemplate(t) /\ HasNsMap(t)
          /\ ~(classes[t].conf.nsmap.items \subseteq registry)
    /\ \E c \in ClassIds :
          /\ IsCompiled(classes[c].serializer) /\ HasNsMap(c)
          /\ classes[c].conf.nsmap.items \subseteq registry
    /\ <<"q", "urn:b">> \in registry

----------------------------------------------------------------------------
(* C7 *)

\* C7 (as claimed): from_model is called at most once for any class.
C7_CompiledAtMostOnce == \A c \in ClassIds : classes[c].compiles <= 1

----------------------------------------------------------------------------
(* C8 *)

\* C8 (as claimed): every class, BaseXmlModel included, has a compiled
\* serializer iff it is concrete.
C8_SerializerIffConcreteAll ==
    \A c \in ClassIds : IsCompiled(classes[c].serializer) <=> IsConcreteType(c)

\* C8 (amended): every class other than the root base BaseXmlModel has a
\* compiled serializer iff it is concrete; a generic template's slot is None.
C8_SerializerIffConcrete ==
    \A c \in ClassIds \ {1} :
        /\ IsCompiled(classes[c].serializer) <=> IsConcreteType(c)
        /\ IsGenericTemplate(c) => IsNone(classes[c].serializer)

\* C8 witness: a template, a specialization of it and a subclass of the
\* specialization exist side by side, after both base classes.
C8_Witness ==
    \E t, s, d \in ClassIds :
        /\ classes[t].base = 2 /\ IsNone(classes[t].serializer)
        /\ classes[s].template = t /\ IsCompiled(classes[s].serializer)
        /\ classes[d].base = s /\ classes[d].template = 0
        /\ IsCompiled(classes[d].serializer)
        /\ classes[1].serializer = Unset

----------------------------------------------------------------------------
(* C9 *)

Specializations == { c \in ClassIds : classes[c].template # 0 }

\* C9: a template's slot stays empty; every specialization holds a serializer
\* compiled from its own fields; no two classes hold the same serializer.
C9_SpecializationIndependence ==
    /\ \A c \in Specializations :
          /\ IsNone(classes[classes[c].template].serializer)
          /\ IsCompiled(classes[c].serializer)
          /\ classes[c].serializer.plan = <<CompilePlan(classes, c)>>
          /\ classes[c].compiles >= 1
    /\ \A c, d \in ClassIds :
          (c # d /\ IsCompiled(classes[c].serializer) /\ IsCompiled(classes[d].serializer))
              => classes[c].serializer.id # classes[d].serializer.id

\* C9 witness: one template specialized with int and with str, both compiled.
C9_Witness ==
    \E t, c, d \in ClassIds :
        /\ classes[c].template = t /\ classes[c].arg = "int"
        /\ classes[d].template = t /\ classes[d].arg = "str"
        /\ HasNsMap(t)
        /\ IsCompiled(classes[c].serializer) /\ IsCompiled(classes[d].serializer)

----------------------------------------------------------------------------
(* C1, C4 *)

\* the latest call was made on a declared generic template, whose serializer
\* slot is empty
OnTemplate ==
    /\ result # NoResult
    /\ IsTemplate(classes, result.cls)
    /\ IsNone(classes[result.cls].serializer)

\* C1 (as claimed): each of the four operations, called on a generic template,
\* fails with a Model error and with no other kind of error.
C1_TemplateRaisesModelError == OnTemplate => result.outcome = "ModelError"

\* C4 (as claimed): from_xml and from_xml_tree on a template raise the Model
\* error before the bytes are parsed and before the extractor runs.
C4_ModelErrorBeforeTreeAccess ==
    (OnTemplate /\ result.op \in {"from_xml", "from_xml_tree"})
        => result.outcome = "ModelError" /\ result.events = <<>>

----------------------------------------------------------------------------
(* C2 *)

\* the latest call deserialized, with the same class, the tree the call before
\* it had made of an instance
RoundTrip == result # NoResult /\ result.op = "from_xml_tree" /\ result.origin # <<>>

----------------------------------------------------------------------------
(* C6 *)

RECURSIVE NoXmlnsBelow(_)
NoXmlnsBelow(node) ==
    \A i \in 1..Len(node.children) :
        ~HasAttr(node.children[i], "xmlns") /\ NoXmlnsBelow(node.children[i])

\* the latest call is a to_xml_tree that returned a tree
Serialized == result # NoResult /\ result.op = "to_xml_tree" /\ result.outcome = "ok"

DeclaresDefaultNs(nsmap) == ~nsmap.none /\ \E it \in nsmap.items : it[1] = ""

CarriesDefaultNs(root, nsmap) ==
    HasAttr(root, "xmlns") /\ root.attrib[<<None, "xmlns">>] = Get(nsmap, "")

\* C6 (as claimed): the root returned by to_xml_tree carries xmlns, equal to the
\* map's entry for the empty prefix, iff the model's namespace map has an entry
\* for the empty prefix; no node below the root carries it.
C6_DefaultNsIffDeclared ==
    Serialized =>
        LET nsmap == classes[result.cls].conf.nsmap
        IN /\ CarriesDefaultNs(result.value, nsmap) <=> DeclaresDefaultNs(nsmap)
           /\ NoXmlnsBelow(result.value)

\* C6 (amended): the root returned by to_xml_tree carries xmlns, equal to the
\* map's entry for the empty prefix, iff the model's namespace map has an entry
\* for the empty prefix whose uri is not the empty string; otherwise the root
\* has no xmlns attribute; no node below the root carries it.
C6_DefaultNsIffNonEmpty ==
    Serialized =>
        LET nsmap == classes[result.cls].conf.nsmap
            declared == DeclaresDefaultNs(nsmap) /\ Get(nsmap, "") # ""
        IN /\ CarriesDefaultNs(result.value, nsmap) <=> declared
           /\ ~declared => ~HasAttr(result.value, "xmlns")
           /\ NoXmlnsBelow(result.value)

\* C6 witness: a root with xmlns over the node of a nested record whose own
\* class declares a default namespace too.
C6_Witness ==
    /\ Serialized
    /\ HasAttr(result.value, "xmlns")
    /\ \E i \in 1..Len(classes[result.cls].fields) :
          LET f == classes[result.cls].fields[i]
          IN /\ f.type = "model"
             /\ DeclaresDefaultNs(classes[f.of].conf.nsmap)
             /\ Get(classes[f.of].conf.nsmap, "") = "urn:a"
    /\ Len(result.value.children) > 0

----------------------------------------------------------------------------
(* C10 *)

Done(th) == threads[th].pc = "done"

\* C10 (as claimed): when threads evaluate the same Template[arg] concurrently,
\* from_model runs at most once for the resulting class and all threads see
\* the same compiled serializer.
C10_CompiledOnceUnderThreads ==
    /\ \A th \in Threads :
          threads[th].model # 0 => classes[threads[th].model].compiles <= 1
    /\ \A a, b \in Threads :
          (Done(a) /\ Done(b) /\ threads[a].model = threads[b].model)
              => threads[a].returned = threads[b].returned

====
